---- MODULE Spec2Model ----
(***************************************************************************)
(* Model of the string-analyzer API: the analysis engine (analyze.js), the *)
(* natural-language query parser (parsers/nlParser.js, of which the        *)
(* repository holds two copies) and the Express handlers of                *)
(* controllers/stringsController.js over the Mongo collection.             *)
(*                                                                         *)
(* A JavaScript string is a sequence of UTF-16 code units; each code unit  *)
(* is written as a one-character TLA+ string, except the two halves of a   *)
(* surrogate pair, which are written "D83D" and "DC4D".                    *)
(***************************************************************************)
EXTENDS Integers, Sequences, FiniteSets, TLC

\* ------------------------------------------------------------------ bounds
MaxFrags == 2       \* fragments per natural-language phrase
MaxClock == 1       \* wall-clock readings created_at can take: 0..MaxClock
MaxValueLen == 4    \* code units of a string given to analyzeString on its own

\* ------------------------------------------------------- character classes
DigitSeq == <<"0","1","2","3","4","5","6","7","8","9">>
LowerSeq == <<"a","b","c","d","e","f","g","h","i","j","k","l","m",
              "n","o","p","q","r","s","t","u","v","w","x","y","z">>
UpperSeq == <<"A","B","C","D","E","F","G","H","I","J","K","L","M",
              "N","O","P","Q","R","S","T","U","V","W","X","Y","Z">>

Range(s) == {s[i] : i \in DOMAIN s}
Digit == Range(DigitSeq)                     \* \d
Lower == Range(LowerSeq)                     \* [a-z]
Upper == Range(UpperSeq)
Whitespace == {" ", "\t", "\n"}              \* \s (the members the model uses)
WordChar == Lower \cup Upper \cup Digit \cup {"_"}   \* \w
Quote == {"'", "\""}                         \* ['"]

Min(S) == CHOOSE x \in S : \A y \in S : x <= y

\* ---------------------------------------------------- string primitives
\* String.prototype.toLowerCase, per code unit
LowerOf(c) == IF c \in Upper
              THEN LowerSeq[CHOOSE i \in DOMAIN UpperSeq : UpperSeq[i] = c]
              ELSE c
toLowerCase(s) == [i \in 1..Len(s) |-> LowerOf(s[i])]

\* the code unit at position i, "" outside the string
At(t, i) == IF i >= 1 /\ i <= Len(t) THEN t[i] ELSE ""

\* the literal lit occurs in t at position i
LitAt(t, i, lit) ==
    /\ i >= 1
    /\ i + Len(lit) - 1 <= Len(t)
    /\ \A k \in 1..Len(lit) : t[i + k - 1] = lit[k]

\* String.prototype.includes
Includes(t, lit) == \E i \in 1..(Len(t) + 1) : LitAt(t, i, lit)

\* end of the maximal run of characters of class cls starting at i
\* (the position after a greedy cls* has consumed all it can)
RunEnd(t, i, cls) ==
    IF i > Len(t) THEN i ELSE
    CHOOSE j \in i..(Len(t) + 1) :
        /\ \A k \in i..(j - 1) : t[k] \in cls
        /\ At(t, j) \notin cls

\* \b : a word boundary between positions i-1 and i
WordBoundary(t, i) == (At(t, i - 1) \in WordChar) # (At(t, i) \in WordChar)

\* Number(digits) for a string of decimal digits
DigitVal(c) == (CHOOSE i \in DOMAIN DigitSeq : DigitSeq[i] = c) - 1
RECURSIVE NumberOfDigits(_)
NumberOfDigits(d) ==
    IF d = <<>> THEN 0
    ELSE 10 * NumberOfDigits(SubSeq(d, 1, Len(d) - 1)) + DigitVal(d[Len(d)])

\* String.prototype.match(regex) without the g flag: the leftmost match.
\* MatchAt(i) is the capture of a match starting at i, or NoMatch.
NoMatch == <<>>
Leftmost(t, MatchAt(_)) ==
    LET S == {i \in 1..Len(t) : MatchAt(i) # NoMatch}
    IN  IF S = {} THEN NoMatch ELSE MatchAt(Min(S))

\* --------------------------------------------------------- JS objects
\* An object is a function from its own property names to their values.
EmptyObject == [k \in {} |-> TRUE]
Has(o, k) == k \in DOMAIN o                       \* o[k] !== undefined
Put(o, k, v) == [x \in DOMAIN o \cup {k} |-> IF x = k THEN v ELSE o[x]]

\* ------------------------------------------------------------ literals
L_palindrom == <<"p","a","l","i","n","d","r","o","m">>
L_single == <<"s","i","n","g","l","e">>
L_one == <<"o","n","e">>
L_word == <<"w","o","r","d">>
L_exactly == <<"e","x","a","c","t","l","y">>
L_longer_than == <<"l","o","n","g","e","r"," ","t","h","a","n"," ">>
L_shorter_than == <<"s","h","o","r","t","e","r"," ","t","h","a","n"," ">>
L_char == <<"c","h","a","r">>
L_first_vowel == <<"f","i","r","s","t"," ","v","o","w","e","l">>
L_initial_vowel == <<"i","n","i","t","i","a","l"," ","v","o","w","e","l">>
L_contain == <<"c","o","n","t","a","i","n">>
L_ing == <<"i","n","g">>
L_the == <<"t","h","e">>
L_letter == <<"l","e","t","t","e","r">>
L_character == <<"c","h","a","r","a","c","t","e","r">>
L_contains == <<"c","o","n","t","a","i","n","s">>
L_sp_the == <<" ","t","h","e">>
L_letter_sp == <<"l","e","t","t","e","r"," ">>
L_containing_sp == <<"c","o","n","t","a","i","n","i","n","g"," ">>
L_the_sp == <<"t","h","e"," ">>

\* ------------------------------------------------- regular expressions
\* /\bpalindrom/
PalindromRe(t) ==
    \E i \in 1..Len(t) : LitAt(t, i, L_palindrom) /\ WordBoundary(t, i)

\* /\b(single|one)\s+word\b/
SingleWordRe(t) ==
    \E i \in 1..Len(t) : \E w \in {L_single, L_one} :
        LET j == i + Len(w)
            k == RunEnd(t, j, Whitespace)
        IN  /\ LitAt(t, i, w)
            /\ WordBoundary(t, i)
            /\ k > j
            /\ LitAt(t, k, L_word)
            /\ WordBoundary(t, k + Len(L_word))

\* /(?:exactly\s+)?(\d+)\s+words?/ tried at position i: capture 1
WordCountAt(t, i) ==
    LET x == i + Len(L_exactly)
        e == IF LitAt(t, i, L_exactly) /\ RunEnd(t, x, Whitespace) > x
             THEN RunEnd(t, x, Whitespace) ELSE i
        d == RunEnd(t, e, Digit)
        w == RunEnd(t, d, Whitespace)
    IN  IF d > e /\ w > d /\ LitAt(t, w, L_word)
        THEN SubSeq(t, e, d - 1) ELSE NoMatch

\* /longer than (\d+)(?:\s+chars?)?/ and /shorter than (\d+)(?:\s+chars?)?/
\* tried at position i (lit is "longer than " or "shorter than "): capture 1.
\* The optional tail never changes whether or what the regex matches, so the
\* same operator models /longer than (\d+)/ of the other copy.
ThanAt(t, i, lit) ==
    LET b == i + Len(lit)
        d == RunEnd(t, b, Digit)
    IN  IF LitAt(t, i, lit) /\ d > b THEN SubSeq(t, b, d - 1) ELSE NoMatch

\* /\b(\d+)\s+chars?\b/ tried at position i: capture 1
ExactAt(t, i) ==
    LET d == RunEnd(t, i, Digit)
        w == RunEnd(t, d, Whitespace)
        c == w + Len(L_char)
    IN  IF /\ d > i
           /\ WordBoundary(t, i)
           /\ w > d
           /\ LitAt(t, w, L_char)
           /\ \/ At(t, c) = "s" /\ WordBoundary(t, c + 1)
              \/ WordBoundary(t, c)
        THEN SubSeq(t, i, d - 1) ELSE NoMatch

\* (['"]?)([a-z])\1 tried at position k, with cls the character class:
\* capture 2. An opening quote must be closed by the same quote.
QuotedCharAt(t, k, cls) ==
    IF At(t, k) \in Quote /\ At(t, k + 1) \in cls /\ At(t, k + 2) = At(t, k)
    THEN <<t[k + 1]>>
    ELSE IF At(t, k) \in cls THEN <<t[k]>> ELSE NoMatch

\* the first alternative, in the regex engine's order of preference, that
\* matches; NoMatch when none does
FirstOf(alts) ==
    LET S == {n \in DOMAIN alts : alts[n] # NoMatch}
    IN  IF S = {} THEN NoMatch ELSE alts[Min(S)]

\* \s+(?:the\s+(?:letter|character)\s+)?(['"]?)([a-z])\1 tried at position p
ContainTailAt(t, p) ==
    LET w  == RunEnd(t, p, Whitespace)
        g1 == RunEnd(t, w + Len(L_the), Whitespace)
        g2 == IF LitAt(t, g1, L_letter) THEN g1 + Len(L_letter)
              ELSE IF LitAt(t, g1, L_character) THEN g1 + Len(L_character)
              ELSE 0
        g3 == RunEnd(t, g2, Whitespace)
        withGroup == IF /\ LitAt(t, w, L_the)
                        /\ g1 > w + Len(L_the)
                        /\ g2 > 0
                        /\ g3 > g2
                     THEN QuotedCharAt(t, g3, Lower) ELSE NoMatch
    IN  IF w > p
        THEN FirstOf(<<withGroup, QuotedCharAt(t, w, Lower)>>)
        ELSE NoMatch

\* /(?:contain|containing)(?:s)?\s+(?:the\s+(?:letter|character)\s+)?(['"]?)([a-z])\1/
\* tried at position i: capture 2
ContainAt(t, i) ==
    LET c == i + Len(L_contain)
        g == c + Len(L_ing)
    IN  IF ~LitAt(t, i, L_contain) THEN NoMatch
        ELSE FirstOf(<<
            IF At(t, c) = "s" THEN ContainTailAt(t, c + 1) ELSE NoMatch,
            ContainTailAt(t, c),
            IF LitAt(t, c, L_ing) /\ At(t, g) = "s"
                THEN ContainTailAt(t, g + 1) ELSE NoMatch,
            IF LitAt(t, c, L_ing) THEN ContainTailAt(t, g) ELSE NoMatch >>)

\* /contains(?: the)? (?:letter )?(['"]?)([a-z0-9])\1/ tried at i: capture 2
ContainsLetterAt(t, i) ==
    LET p == i + Len(L_contains)
        \* after the optional " the" and the mandatory space
        rest(q) == IF At(t, q) # " " THEN NoMatch
                   ELSE FirstOf(<<
                       IF LitAt(t, q + 1, L_letter_sp)
                           THEN QuotedCharAt(t, q + 1 + Len(L_letter_sp),
                                             Lower \cup Digit)
                           ELSE NoMatch,
                       QuotedCharAt(t, q + 1, Lower \cup Digit) >>)
    IN  IF ~LitAt(t, i, L_contains) THEN NoMatch
        ELSE FirstOf(<<
            IF LitAt(t, p, L_sp_the) THEN rest(p + Len(L_sp_the)) ELSE NoMatch,
            rest(p) >>)

\* /\bcontaining (?:the )?letter ([a-z0-9])\b/ tried at i: capture 1
ContainingLetterAt(t, i) ==
    LET p == i + Len(L_containing_sp)
        rest(q) == IF /\ LitAt(t, q, L_letter_sp)
                      /\ At(t, q + Len(L_letter_sp)) \in Lower \cup Digit
                      /\ WordBoundary(t, q + Len(L_letter_sp) + 1)
                   THEN <<t[q + Len(L_letter_sp)]>> ELSE NoMatch
    IN  IF ~(WordBoundary(t, i) /\ LitAt(t, i, L_containing_sp)) THEN NoMatch
        ELSE FirstOf(<<
            IF LitAt(t, p, L_the_sp) THEN rest(p + Len(L_the_sp)) ELSE NoMatch,
            rest(p) >>)

\* ------------------------------------------------- natural-language parser
\* What a call of parseNaturalLanguageQuery produces: a returned object
\* {original, parsed_filters}, or a thrown error with its message and its
\* status property (0 stands for an error that carries no status).
Thrown(message, status) ==
    [threw |-> TRUE, status |-> status, message |-> message,
     original |-> <<>>, parsed_filters |-> EmptyObject]
Returned_lowerCased(original, filters) ==
    [threw |-> FALSE, status |-> 0, message |-> "",
     original |-> toLowerCase(original), parsed_filters |-> filters]
Returned(original, filters) ==
    [threw |-> FALSE, status |-> 0, message |-> "",
     original |-> original, parsed_filters |-> filters]

MsgEmpty == "Empty natural language query"
MsgWordConflict == "Query contains conflicting word count requirements."
MsgUnparseable == "Unable to parse natural language query"
MsgInfeasible == "Parsed filters are conflicting (min_length > max_length)"

\* The parser runs its rules in order over the lower-cased phrase; each
\* rule takes the filters so far and gives the filters after it.

\* rule: palindromic / palindrome
RulePalindrome(text, filters) ==
    IF PalindromRe(text) THEN Put(filters, "is_palindrome", TRUE) ELSE filters

\* rule: single word / one word
RuleSingleWord(text, filters) ==
    IF SingleWordRe(text) THEN Put(filters, "word_count", 1) ELSE filters

\* rule: explicit word count. In part_001 a word count that is already
\* set (and truthy) and differs from the parsed one throws.
WordCountConflict(text, filters) ==
    LET wordMatch == Leftmost(text, LAMBDA i : WordCountAt(text, i))
    IN  /\ wordMatch # NoMatch
        /\ Has(filters, "word_count")
        /\ filters["word_count"] # 0
        /\ filters["word_count"] # NumberOfDigits(wordMatch)

RuleWordCount(text, filters) ==
    LET wordMatch == Leftmost(text, LAMBDA i : WordCountAt(text, i))
    IN  IF wordMatch # NoMatch
        THEN Put(filters, "word_count", NumberOfDigits(wordMatch)) ELSE filters

\* rule: longer than N  => min_length N + 1
RuleLonger(text, filters) ==
    LET longerMatch == Leftmost(text, LAMBDA i : ThanAt(text, i, L_longer_than))
    IN  IF longerMatch # NoMatch
        THEN Put(filters, "min_length", NumberOfDigits(longerMatch) + 1)
        ELSE filters

\* rule: shorter than N  => max_length N - 1
RuleShorter(text, filters) ==
    LET shorterMatch == Leftmost(text, LAMBDA i : ThanAt(text, i, L_shorter_than))
    IN  IF shorterMatch # NoMatch
        THEN Put(filters, "max_length", NumberOfDigits(shorterMatch) - 1)
        ELSE filters

\* rule: exactly N characters, applied when neither of the two rules
\* before it matched (part_001 only)
RuleExact(text, filters) ==
    LET exactMatch == Leftmost(text, LAMBDA i : ExactAt(text, i))
    IN  IF /\ exactMatch # NoMatch
           /\ Leftmost(text, LAMBDA i : ThanAt(text, i, L_longer_than)) = NoMatch
           /\ Leftmost(text, LAMBDA i : ThanAt(text, i, L_shorter_than)) = NoMatch
        THEN Put(Put(filters, "min_length", NumberOfDigits(exactMatch)),
                 "max_length", NumberOfDigits(exactMatch))
        ELSE filters

\* rule: heuristic for "first vowel" -> 'a' (part_001 only)
RuleVowel(text, filters) ==
    IF Includes(text, L_first_vowel) \/ Includes(text, L_initial_vowel)
    THEN Put(filters, "contains_character", <<"a">>) ELSE filters

\* rule: explicit character, part_001
RuleContain(text, filters) ==
    LET containsMatch == Leftmost(text, LAMBDA i : ContainAt(text, i))
    IN  IF containsMatch # NoMatch
        THEN Put(filters, "contains_character", containsMatch) ELSE filters

\* rule: explicit character, src/parsers/nlParser.js
RuleContainsLetter(text, filters) ==
    LET containsLetter == Leftmost(text, LAMBDA i : ContainsLetterAt(text, i))
        containsLetter2 == Leftmost(text, LAMBDA i : ContainingLetterAt(text, i))
    IN  IF containsLetter # NoMatch
        THEN Put(filters, "contains_character", containsLetter)
        ELSE IF containsLetter2 # NoMatch
             THEN Put(filters, "contains_character", containsLetter2)
             ELSE filters

\* the end of the parser without its min_length > max_length check
Validate_withoutRangeCheck(original, filters) ==
    IF DOMAIN filters = {} THEN Thrown(MsgUnparseable, 400)
    ELSE Returned(original, filters)

\* the end of the parser, the same in both copies: nothing parsed is a
\* 400, min_length > max_length a 422, else the object is returned
Validate(original, filters) ==
    IF DOMAIN filters = {} THEN Thrown(MsgUnparseable, 400)
    ELSE IF /\ Has(filters, "min_length")
            /\ Has(filters, "max_length")
            /\ filters["min_length"] > filters["max_length"]
         THEN Thrown(MsgInfeasible, 422)
         ELSE Returned(original, filters)

\* the rules of part_001 in order, from the empty filters object
Accumulate_part001(text) ==
    RuleContain(text,
    RuleVowel(text,
    RuleExact(text,
    RuleShorter(text,
    RuleLonger(text,
    RuleWordCount(text,
    RuleSingleWord(text,
    RulePalindrome(text, EmptyObject))))))))

\* the copy of the parser whose file name is not known (unnamed/part_001)
parseNaturalLanguageQuery_part001(raw) ==
    LET text == toLowerCase(raw)
    IN  IF raw = <<>> THEN Thrown(MsgEmpty, 400)
        ELSE IF WordCountConflict(text,
                    RuleSingleWord(text, RulePalindrome(text, EmptyObject)))
        THEN Thrown(MsgWordConflict, 422)
        ELSE Validate(raw, Accumulate_part001(text))

\* the rules of src/parsers/nlParser.js in order
Accumulate(text) ==
    RuleContainsLetter(text,
    RuleShorter(text,
    RuleLonger(text,
    RuleWordCount(text,
    RuleSingleWord(text,
    RulePalindrome(text, EmptyObject))))))

\* src/parsers/nlParser.js, the copy the controller imports
parseNaturalLanguageQuery(raw) ==
    LET text == toLowerCase(raw)
    IN  IF raw = <<>> THEN Thrown(MsgEmpty, 0)
        ELSE Validate(raw, Accumulate(text))

\* ------------------------------------------------------- analysis engine
HighSurrogate == {"D83D"}
LowSurrogate == {"DC4D"}

\* Array.from(value) / for (const ch of value): the string split into code
\* points; a high surrogate followed by a low one is one element, every
\* other code unit (a lone surrogate too) is an element of its own.
\* a split into code units, surrogate pairs not kept together
ArrayFrom_codeUnits(s) == [i \in 1..Len(s) |-> <<s[i]>>]

RECURSIVE ArrayFrom(_)
ArrayFrom(s) ==
    IF s = <<>> THEN <<>>
    ELSE IF Len(s) >= 2 /\ s[1] \in HighSurrogate /\ s[2] \in LowSurrogate
         THEN <<SubSeq(s, 1, 2)>> \o ArrayFrom(SubSeq(s, 3, Len(s)))
         ELSE <<SubSeq(s, 1, 1)>> \o ArrayFrom(SubSeq(s, 2, Len(s)))

\* Array.prototype.reverse and Array.prototype.join("")
Reverse(a) == [i \in 1..Len(a) |-> a[Len(a) + 1 - i]]
RECURSIVE Join(_)
Join(a) == IF a = <<>> THEN <<>> ELSE a[1] \o Join(Tail(a))

\* Buffer.from(value, "utf8"): the code points in order, a lone surrogate
\* replaced by U+FFFD
Utf8(value) ==
    LET cps == ArrayFrom(value)
    IN  [i \in 1..Len(cps) |->
            IF Len(cps[i]) = 1 /\ cps[i][1] \in HighSurrogate \cup LowSurrogate
            THEN <<"FFFD">> ELSE cps[i]]

\* SHA-256 is taken to be collision-free: the digest stands for the bytes
\* it was computed over and for nothing else.
sha256Hex(value) == [sha256 |-> Utf8(value)]

\* String.prototype.trim
Trim(s) ==
    LET keep == {i \in 1..Len(s) : s[i] \notin Whitespace}
    IN  IF keep = {} THEN <<>>
        ELSE SubSeq(s, Min(keep), CHOOSE j \in keep : \A k \in keep : k <= j)

\* a word count that splits without trimming first
computeWordCount_withoutTrim(value) ==
    IF value = <<>> THEN 0
    ELSE 1 + Cardinality({i \in 1..Len(value) :
                 value[i] \in Whitespace /\ At(value, i - 1) \notin Whitespace})

computeWordCount(value) ==
    LET trimmed == Trim(value)
    IN  IF trimmed = <<>> THEN 0
        \* trimmed.split(/\s+/).length: one more than the whitespace runs
        ELSE 1 + Cardinality({i \in 2..Len(trimmed) :
                    trimmed[i] \in Whitespace /\ trimmed[i - 1] \notin Whitespace})

computeCharacterFrequencyMap(value) ==
    LET cps == ArrayFrom(value)
    IN  [ch \in Range(cps) |-> Cardinality({i \in 1..Len(cps) : cps[i] = ch})]

\* a palindrome check that does not lower-case
computeIsPalindrome_caseSensitive(value) ==
    value = Join(Reverse(ArrayFrom(value)))

computeIsPalindrome(value) ==
    LET lower == toLowerCase(value)
        reversed == Join(Reverse(ArrayFrom(lower)))
    IN  lower = reversed

\* new Set(Array.from(value)) keeps the first occurrence of each code
\* point, in order
\* the characters of the string without the Set that removes duplicates
computeUniqueCharactersAndArray_withoutSet(value) ==
    [uniqueCount |-> Len(ArrayFrom(value)), charactersArray |-> ArrayFrom(value)]

computeUniqueCharactersAndArray(value) ==
    LET cps == ArrayFrom(value)
        first == {i \in 1..Len(cps) : \A j \in 1..(i - 1) : cps[j] # cps[i]}
        nth(n) == CHOOSE i \in first : Cardinality({j \in first : j < i}) = n - 1
    IN  [uniqueCount |-> Cardinality(first),
         charactersArray |-> [n \in 1..Cardinality(first) |-> cps[nth(n)]]]

\* The repository holds two copies of analyze.js and of nlParser.js: the
\* files under src/ that the controller imports, and unnamed/part_001.
Copies == {"src", "part_001"}

\* an analyzeString whose id also hashes the time of the analysis
analyzeString_idOfValueAndTime(which, value, now) ==
    LET u == computeUniqueCharactersAndArray(value)
        properties == [length |-> Len(ArrayFrom(value)),
                       is_palindrome |-> computeIsPalindrome(value),
                       unique_characters |-> u.uniqueCount,
                       word_count |-> computeWordCount(value),
                       character_frequency_map |-> computeCharacterFrequencyMap(value)]
    IN  [id |-> sha256Hex(value \o <<DigitSeq[now + 1]>>),
         value |-> value,
         properties |-> IF which = "part_001"
                        THEN Put(properties, "sha256_hash",
                                 sha256Hex(value \o <<DigitSeq[now + 1]>>))
                        ELSE properties,
         characters_array |-> u.charactersArray,
         created_at |-> now]

\* analyzeString of the selected copy, called when the clock reads now.
\* The part_001 copy adds properties.sha256_hash.
analyzeString(which, value, now) ==
    LET length == Len(ArrayFrom(value))
        is_palindrome == computeIsPalindrome(value)
        word_count == computeWordCount(value)
        sha256_hash == sha256Hex(value)
        character_frequency_map == computeCharacterFrequencyMap(value)
        u == computeUniqueCharactersAndArray(value)
        properties == [length |-> length,
                       is_palindrome |-> is_palindrome,
                       unique_characters |-> u.uniqueCount,
                       word_count |-> word_count,
                       character_frequency_map |-> character_frequency_map]
    IN  [id |-> sha256_hash,
         value |-> value,
         properties |-> IF which = "part_001"
                        THEN Put(properties, "sha256_hash", sha256_hash)
                        ELSE properties,
         characters_array |-> u.charactersArray,
         created_at |-> now]

MIN_LENGTH == 1
MAX_LENGTH == 5000

\* ------------------------------------------------------ percent-encoding
\* The escapes the model's requests use. Every "%" in a request of the
\* model either starts one of these or is malformed.
Escapes == << [esc |-> <<"%","2","0">>, str |-> <<" ">>],
              [esc |-> <<"%","2","5">>, str |-> <<"%">>],
              [esc |-> <<"%","4","1">>, str |-> <<"A">>] >>

\* decodeURIComponent: [ok, str]; ok is FALSE where it throws URIError
RECURSIVE decodeURIComponent(_)
decodeURIComponent(s) ==
    IF s = <<>> THEN [ok |-> TRUE, str |-> <<>>]
    ELSE IF s[1] # "%"
    THEN LET rest == decodeURIComponent(Tail(s))
         IN  [ok |-> rest.ok, str |-> <<s[1]>> \o rest.str]
    ELSE LET E == {n \in DOMAIN Escapes : LitAt(s, 1, Escapes[n].esc)}
         IN  IF E = {} THEN [ok |-> FALSE, str |-> <<>>]
             ELSE LET e == Escapes[Min(E)]
                      rest == decodeURIComponent(SubSeq(s, Len(e.esc) + 1, Len(s)))
                  IN  [ok |-> rest.ok, str |-> e.str \o rest.str]

\* encodeURIComponent, as the client applies it to a value of the model
RECURSIVE encodeURIComponent(_)
encodeURIComponent(s) ==
    IF s = <<>> THEN <<>>
    ELSE LET E == {n \in DOMAIN Escapes : Escapes[n].str = <<s[1]>>}
             head == IF s[1] \in Lower \cup Upper \cup Digit \/ E = {}
                     THEN <<s[1]>> ELSE Escapes[Min(E)].esc
         IN  head \o encodeURIComponent(Tail(s))

\* ---------------------------------------------------------------- state
VARIABLES
    copy,      \* the copy of analyze.js and nlParser.js that is loaded
    store,     \* the Mongo collection: the set of its documents
    clock,     \* the wall clock new Date() reads
    post,      \* per client, its POST /strings request and how far it got
    last,      \* the last GET or DELETE /strings/:value and its response
    phrase,    \* the phrase of the natural-language request
    nl,        \* GET /strings/filter-by-natural-language: its response
    direct,    \* GET /strings: its response
    input,     \* the string given to analyzeString on its own
    analysis   \* what analyzeString and the POST length check made of it

vars == <<copy, store, clock, post, last, phrase, nl, direct, input, analysis>>

Clients == {"c1", "c2"}

\* the strings the requests of the model carry
V_a == <<"a">>
V_Ab == <<"A", " ", "b">>
Values == {V_a, V_Ab}

\* req.body.value: absent, of another type, or a string
Bodies == {[type |-> "undefined", str |-> <<>>],
           [type |-> "number", str |-> <<>>],
           [type |-> "string", str |-> <<>>]}
          \cup {[type |-> "string", str |-> v] : v \in Values}

\* the path segment after /strings/ as the client sends it: a value,
\* percent-encoded
Segments == {encodeURIComponent(v) : v \in Values}

\* Express decodes a route parameter before the handler sees it:
\* req.params.value is decodeURIComponent of the path segment
ExpressParam(seg) == decodeURIComponent(seg)

\* req.params.value of GET and DELETE /strings/:value
RawParams == {ExpressParam(seg).str : seg \in {g \in Segments : ExpressParam(g).ok}}

\* The routes of the router in the order they are registered. A request is
\* handled by the first route whose method and path match; ":value"
\* matches any non-empty segment.
L_filter_by_natural_language ==
    <<"f","i","l","t","e","r","-","b","y","-","n","a","t","u","r","a","l",
      "-","l","a","n","g","u","a","g","e">>
Routes == <<
    [method |-> "POST",   second |-> "none",    literal |-> <<>>,
     handler |-> "PostStrings"],
    [method |-> "GET",    second |-> "param",   literal |-> <<>>,
     handler |-> "GetStringsValue"],
    [method |-> "GET",    second |-> "none",    literal |-> <<>>,
     handler |-> "GetStrings"],
    [method |-> "GET",    second |-> "literal", literal |-> L_filter_by_natural_language,
     handler |-> "NaturalLanguageFilter"],
    [method |-> "DELETE", second |-> "param",   literal |-> <<>>,
     handler |-> "DeleteStringsValue"] >>
RouteMatches(route, method, seg) ==
    /\ route.method = method
    /\ IF route.second = "none" THEN seg = <<>>
       ELSE IF route.second = "param" THEN seg # <<>>
       ELSE seg = route.literal
Dispatch(method, seg) ==
    Routes[Min({n \in DOMAIN Routes : RouteMatches(Routes[n], method, seg)})].handler

\* ------------------------------------------------------- Mongo collection
\* collection.findOne({ _id: id }): the document, as a set of at most one
findOne(coll, id) == {d \in coll : d._id = id}

\* collection.insertOne(doc): _id is unique; a second document with the
\* same _id is refused with a duplicate-key error and the collection is
\* left as it was
insertOne_withoutUniqueId(coll, doc) ==
    [threw |-> FALSE, coll |-> coll \cup {doc}]
insertOne(coll, doc) ==
    IF findOne(coll, doc._id) # {}
    THEN [threw |-> TRUE, coll |-> coll]
    ELSE [threw |-> FALSE, coll |-> coll \cup {doc}]

\* collection.deleteOne({ _id: id })
deleteOne(coll, id) ==
    [deletedCount |-> Cardinality(findOne(coll, id)),
     coll |-> coll \ findOne(coll, id)]

\* --------------------------------------------------------- POST /strings
Idle == [pc |-> "idle", body |-> [type |-> "undefined", str |-> <<>>],
         doc |-> {}, status |-> 0]

\* the handler up to its first await: the checks of the body, then
\* collection.findOne is called
\* const length = Array.from(value).length
PostLength(value) == Len(ArrayFrom(value))

PostValidate(body) ==
    IF body.type = "undefined" THEN 400
    ELSE IF body.type # "string" THEN 422
    ELSE IF PostLength(body.str) < MIN_LENGTH THEN 400
    ELSE IF PostLength(body.str) > MAX_LENGTH THEN 400
    ELSE 0

PostReceive(c, body) ==
    /\ post[c].pc = "idle"
    /\ post' = [post EXCEPT ![c] =
                  IF PostValidate(body) # 0
                  THEN [pc |-> "done", body |-> body, doc |-> {},
                        status |-> PostValidate(body)]
                  ELSE [pc |-> "findOne", body |-> body, doc |-> {},
                        status |-> 0]]
    /\ UNCHANGED <<copy, store, clock, last, phrase, nl, direct, input, analysis>>

\* the document POST /strings prepares from the analysis
PostDocument(which, value, now) ==
    LET analyzed == analyzeString(which, value, now)
    IN  [_id |-> analyzed.id,
         value |-> analyzed.value,
         properties |-> analyzed.properties,
         characters_array |-> analyzed.characters_array,
         created_at |-> analyzed.created_at]

\* findOne answers: 409 if the id is stored, else the string is analyzed
\* and collection.insertOne is called
PostFindOne(c) ==
    /\ post[c].pc = "findOne"
    /\ LET id == sha256Hex(post[c].body.str)
           existing == findOne(store, id)
       IN  post' = [post EXCEPT ![c] =
                      IF existing # {}
                      THEN [@ EXCEPT !.pc = "done", !.status = 409,
                                     !.doc = existing]
                      ELSE [@ EXCEPT !.pc = "insertOne",
                                     !.doc = {PostDocument(copy, post[c].body.str, clock)}]]
    /\ UNCHANGED <<copy, store, clock, last, phrase, nl, direct, input, analysis>>

\* insertOne answers: 201, or its error goes to next(err) and the global
\* error handler answers 500
PostInsertOne(c) ==
    /\ post[c].pc = "insertOne"
    /\ LET doc == CHOOSE d \in post[c].doc : TRUE
           r == insertOne(store, doc)
       IN  /\ store' = r.coll
           /\ post' = [post EXCEPT ![c] =
                         [@ EXCEPT !.pc = "done",
                                   !.status = IF r.threw THEN 500 ELSE 201]]
    /\ UNCHANGED <<copy, clock, last, phrase, nl, direct, input, analysis>>

\* the client has its response and may send another request
PostDone(c) ==
    /\ post[c].pc = "done"
    /\ post' = [post EXCEPT ![c] = Idle]
    /\ UNCHANGED <<copy, store, clock, last, phrase, nl, direct, input, analysis>>

\* ------------------------------------- GET and DELETE /strings/:value
NoRequest == [method |-> "none", raw |-> <<>>, status |-> 0, id |-> {}, doc |-> {}]

GetStringsValue(raw) ==
    /\ LET decoded == decodeURIComponent(raw)
           id == sha256Hex(decoded.str)
           doc == findOne(store, id)
       IN  last' = IF raw = <<>>
                   THEN [method |-> "GET", raw |-> raw, status |-> 400,
                         id |-> {}, doc |-> {}]
                   ELSE IF ~decoded.ok
                   THEN [method |-> "GET", raw |-> raw, status |-> 500,
                         id |-> {}, doc |-> {}]
                   ELSE [method |-> "GET", raw |-> raw,
                         status |-> IF doc = {} THEN 404 ELSE 200,
                         id |-> {id}, doc |-> doc]
    /\ UNCHANGED <<copy, store, clock, post, phrase, nl, direct, input, analysis>>

DeleteStringsValue(raw) ==
    /\ LET decoded == decodeURIComponent(raw)
           id == sha256Hex(decoded.str)
           result == deleteOne(store, id)
       IN  IF raw = <<>>
           THEN /\ last' = [method |-> "DELETE", raw |-> raw, status |-> 400,
                            id |-> {}, doc |-> {}]
                /\ store' = store
           ELSE IF ~decoded.ok
           THEN /\ last' = [method |-> "DELETE", raw |-> raw, status |-> 500,
                            id |-> {}, doc |-> {}]
                /\ store' = store
           ELSE /\ last' = [method |-> "DELETE", raw |-> raw,
                            status |-> IF result.deletedCount = 0
                                       THEN 404 ELSE 204,
                            id |-> {id}, doc |-> {}]
                /\ store' = result.coll
    /\ UNCHANGED <<copy, clock, post, phrase, nl, direct, input, analysis>>

\* ------------------------------------------------------- query handlers
\* String(x).toLowerCase() of a query parameter is "true" / "false"
L_true == <<"t","r","u","e">>
L_false == <<"f","a","l","s","e">>

\* Number(param) of a query parameter, with Number.isInteger of the result:
\* [int, n]. The parameters of the model are "", decimal digits with or
\* without a leading "-", or text that is no number at all.
NumberOf(str) ==
    LET neg == Len(str) >= 2 /\ str[1] = "-"
        digits == IF neg THEN Tail(str) ELSE str
    IN  IF \A i \in 1..Len(digits) : digits[i] \in Digit
        THEN [int |-> TRUE,
              n |-> IF neg THEN 0 - NumberOfDigits(digits)
                    ELSE NumberOfDigits(digits)]
        ELSE [int |-> FALSE, n |-> 0]

\* $gte / $lte added to query["properties.length"]:
\* { ...(query["properties.length"] || {}), [op]: v }
WithRange(query, op, v) ==
    Put(query, "properties.length",
        Put(IF Has(query, "properties.length")
            THEN query["properties.length"] ELSE EmptyObject, op, v))

\* GET /strings: each parameter that is present adds its clause
DirectPalindrome(q, query) ==
    IF Has(q, "is_palindrome")
    THEN Put(query, "properties.is_palindrome",
             toLowerCase(q["is_palindrome"]) = L_true)
    ELSE query
DirectMinLength(q, query) ==
    IF Has(q, "min_length")
    THEN WithRange(query, "$gte", NumberOf(q["min_length"]).n) ELSE query
DirectMaxLength_replacingRange(q, query) ==
    IF Has(q, "max_length")
    THEN Put(query, "properties.length",
             Put(EmptyObject, "$lte", NumberOf(q["max_length"]).n))
    ELSE query
DirectMaxLength(q, query) ==
    IF Has(q, "max_length")
    THEN WithRange(query, "$lte", NumberOf(q["max_length"]).n) ELSE query
DirectWordCount(q, query) ==
    IF Has(q, "word_count")
    THEN Put(query, "properties.word_count", NumberOf(q["word_count"]).n)
    ELSE query
DirectContains(q, query) ==
    IF Has(q, "contains_character") /\ q["contains_character"] # <<>>
    THEN Put(query, "characters_array", SubSeq(q["contains_character"], 1, 1))
    ELSE query

\* GET /strings: a parameter that fails its check is answered 400
DirectValid(q) ==
    /\ Has(q, "is_palindrome")
          => toLowerCase(q["is_palindrome"]) \in {L_true, L_false}
    /\ Has(q, "min_length") => NumberOf(q["min_length"]).int
    /\ Has(q, "max_length") => NumberOf(q["max_length"]).int
    /\ Has(q, "word_count") => NumberOf(q["word_count"]).int
    /\ Has(q, "contains_character") => q["contains_character"] # <<>>

\* GET /strings: the Mongo query built from req.query: [status, query]
GetStringsQuery(q) ==
    IF ~DirectValid(q) THEN [status |-> 400, query |-> EmptyObject]
    ELSE [status |-> 200,
          query |-> DirectContains(q,
                    DirectWordCount(q,
                    DirectMaxLength(q,
                    DirectMinLength(q,
                    DirectPalindrome(q, EmptyObject)))))]

\* GET /strings/filter-by-natural-language: each filter that is present
\* adds its clause
NLPalindrome(parsed, mongoQuery) ==
    IF Has(parsed, "is_palindrome")
    THEN Put(mongoQuery, "properties.is_palindrome", parsed["is_palindrome"])
    ELSE mongoQuery
NLMinLength(parsed, mongoQuery) ==
    IF Has(parsed, "min_length")
    THEN WithRange(mongoQuery, "$gte", parsed["min_length"]) ELSE mongoQuery
NLMaxLength(parsed, mongoQuery) ==
    IF Has(parsed, "max_length")
    THEN WithRange(mongoQuery, "$lte", parsed["max_length"]) ELSE mongoQuery
NLWordCount(parsed, mongoQuery) ==
    IF Has(parsed, "word_count")
    THEN Put(mongoQuery, "properties.word_count", parsed["word_count"])
    ELSE mongoQuery
NLContains(parsed, mongoQuery) ==
    IF Has(parsed, "contains_character")
    THEN Put(mongoQuery, "characters_array", parsed["contains_character"])
    ELSE mongoQuery

\* GET /strings/filter-by-natural-language: the Mongo query built from
\* interpreted.parsed_filters
NaturalLanguageQuery(parsed) ==
    NLContains(parsed,
    NLWordCount(parsed,
    NLMaxLength(parsed,
    NLMinLength(parsed,
    NLPalindrome(parsed, EmptyObject)))))

\* a document satisfies a Mongo query: every clause of the query holds
Matches(doc, query) ==
    /\ Has(query, "properties.is_palindrome")
          => doc.properties.is_palindrome = query["properties.is_palindrome"]
    /\ Has(query, "properties.length")
          => LET r == query["properties.length"]
             IN  /\ Has(r, "$gte") => doc.properties.length >= r["$gte"]
                 /\ Has(r, "$lte") => doc.properties.length <= r["$lte"]
    /\ Has(query, "properties.word_count")
          => doc.properties.word_count = query["properties.word_count"]
    /\ Has(query, "characters_array")
          => query["characters_array"] \in Range(doc.characters_array)

documentToResponse(doc) ==
    [id |-> doc._id, value |-> doc.value, properties |-> doc.properties,
     created_at |-> doc.created_at]

\* collection.find(query).sort({ created_at: -1 }).limit(n).toArray(), then
\* .map(documentToResponse). The documents of the model have distinct
\* created_at and are fewer than either handler's limit.
Find(coll, query) ==
    LET hit == {d \in coll : Matches(d, query)}
        nth(n) == CHOOSE d \in hit :
                     Cardinality({e \in hit : e.created_at > d.created_at}) = n - 1
    IN  [n \in 1..Cardinality(hit) |-> documentToResponse(nth(n))]

\* parseNaturalLanguageQuery of the loaded copy
LoadedParser(which, raw) ==
    IF which = "part_001" THEN parseNaturalLanguageQuery_part001(raw)
    ELSE parseNaturalLanguageQuery(raw)

NoResponse ==
    [status |-> 0, called |-> FALSE, interpreted |-> Thrown("", 0),
     params |-> EmptyObject, query |-> EmptyObject, data |-> <<>>, count |-> 0]

\* GET /strings/filter-by-natural-language?query=<phrase>
NaturalLanguageFilter ==
    /\ nl.status = 0
    /\ LET decoded == decodeURIComponent(phrase)
           interpreted == LoadedParser(copy, decoded.str)
           mongoQuery == NaturalLanguageQuery(interpreted.parsed_filters)
           docs == Find(store, mongoQuery)
       IN  nl' = IF phrase = <<>>
                 THEN [NoResponse EXCEPT !.status = 400]
                 ELSE IF ~decoded.ok
                 THEN [NoResponse EXCEPT !.status = 500]
                 ELSE IF interpreted.threw
                 THEN [NoResponse EXCEPT
                         !.status = IF interpreted.status \in {400, 422}
                                    THEN interpreted.status ELSE 500,
                         !.called = TRUE,
                         !.interpreted = interpreted]
                 ELSE [status |-> 200, called |-> TRUE,
                       interpreted |-> interpreted, params |-> EmptyObject,
                       query |-> mongoQuery, data |-> docs, count |-> Len(docs)]
    /\ UNCHANGED <<copy, store, clock, post, last, phrase, direct, input, analysis>>

\* GET /strings?<params>, with the default page and limit; the client
\* sends it once its natural-language request has been answered
GetStrings(params) ==
    /\ nl.status # 0
    /\ direct.status = 0
    /\ LET r == GetStringsQuery(params)
           dataDocs == Find(store, r.query)
       IN  direct' = IF r.status # 200
                     THEN [NoResponse EXCEPT !.status = r.status, !.params = params]
                     ELSE [status |-> 200, called |-> FALSE,
                           interpreted |-> Thrown("", 0), params |-> params,
                           query |-> r.query, data |-> dataDocs,
                           count |-> Cardinality({d \in store : Matches(d, r.query)})]
    /\ UNCHANGED <<copy, store, clock, post, last, phrase, nl, input, analysis>>

\* String(n) of an integer, as a client writes it into a query string
RECURSIVE DecimalOf(_)
DecimalOf(n) ==
    IF n < 0 THEN <<"-">> \o DecimalOf(0 - n)
    ELSE IF n < 10 THEN <<DigitSeq[n + 1]>>
    ELSE DecimalOf(n \div 10) \o <<DigitSeq[(n % 10) + 1]>>

\* the query parameters by which a client asks GET /strings for filter f
ParamsOf(f) ==
    [k \in DOMAIN f |->
        IF k = "is_palindrome" THEN (IF f[k] THEN L_true ELSE L_false)
        ELSE IF k = "contains_character" THEN f[k]
        ELSE DecimalOf(f[k])]

\* the query parameters of the model: those of the filter the phrase was
\* interpreted as, and some that no phrase yields
OtherParams ==
    { [is_palindrome |-> <<"F","A","L","S","E">>, word_count |-> <<"2">>],
      [is_palindrome |-> <<"m","a","y","b","e">>],
      [max_length |-> <<>>, contains_character |-> <<"A","b">>] }
DirectParams ==
    OtherParams \cup
    (IF nl.status = 200 THEN {ParamsOf(nl.interpreted.parsed_filters)} ELSE {})

\* GET /strings/filter-by-natural-language?query=<phrase> sent through
\* the router: the first matching route handles it
GetFilterByNaturalLanguage ==
    /\ last = NoRequest
    /\ nl.status = 0
    /\ IF Dispatch("GET", L_filter_by_natural_language) = "GetStringsValue"
       THEN GetStringsValue(ExpressParam(L_filter_by_natural_language).str)
       ELSE NaturalLanguageFilter

\* ------------------------------------------- analyzeString on its own
\* before analyzeString(input) was called and before the length check ran
NotAnalyzed ==
    [called |-> FALSE, result |-> analyzeString("src", <<>>, 0),
     checked |-> FALSE, length |-> 0, status |-> 0]

\* analyzeString(input) is called and returns
AnalyzeString ==
    /\ ~analysis.called
    /\ analysis' = [analysis EXCEPT !.called = TRUE,
                                    !.result = analyzeString(copy, input, clock)]
    /\ UNCHANGED <<copy, store, clock, post, last, phrase, nl, direct, input>>

\* POST /strings with { value: input }: the length it computes and what
\* its checks answer (0: the request goes on to findOne)
PostLengthCheck ==
    /\ ~analysis.checked
    /\ analysis' = [analysis EXCEPT
                       !.checked = TRUE,
                       !.length = PostLength(input),
                       !.status = PostValidate([type |-> "string", str |-> input])]
    /\ UNCHANGED <<copy, store, clock, post, last, phrase, nl, direct, input>>

\* time passes
Tick ==
    /\ clock < MaxClock
    /\ clock' = clock + 1
    /\ UNCHANGED <<copy, store, post, last, phrase, nl, direct, input, analysis>>


Init ==
    /\ copy \in Copies
    /\ store = {}
    /\ clock = 0
    /\ post = [c \in Clients |-> Idle]
    /\ last = NoRequest
    /\ phrase = <<>>
    /\ nl = NoResponse
    /\ direct = NoResponse
    /\ input = <<>>
    /\ analysis = NotAnalyzed

Next ==
    \/ \E c \in Clients : \E body \in Bodies : PostReceive(c, body)
    \/ \E c \in Clients : PostFindOne(c)
    \/ \E c \in Clients : PostInsertOne(c)
    \/ \E c \in Clients : PostDone(c)
    \/ \E raw \in RawParams : GetStringsValue(raw)
    \/ \E raw \in RawParams : DeleteStringsValue(raw)
    \/ Tick

Spec == Init /\ [][Next]_vars

\* ------------------------------------------------------------- phrases
Fragments == <<
    <<"s","i","n","g","l","e"," ","w","o","r","d">>,   \* single word
    <<"e","x","a","c","t","l","y"," ","2"," ","w","o","r","d","s">>,   \* exactly 2 words
    <<"3"," ","w","o","r","d","s">>,   \* 3 words
    <<"1"," ","w","o","r","d">>,   \* 1 word
    <<"l","o","n","g","e","r"," ","t","h","a","n"," ","1","0">>,   \* longer than 10
    <<"s","h","o","r","t","e","r"," ","t","h","a","n"," ","6">>,   \* shorter than 6
    <<"l","o","n","g","e","r"," ","t","h","a","n"," ","3"," ","c","h","a","r","s">>,   \* longer than 3 chars
    <<"1","0"," ","c","h","a","r","a","c","t","e","r","s">>,   \* 10 characters
    <<"5"," ","c","h","a","r","s">>,   \* 5 chars
    <<"c","o","n","t","a","i","n","i","n","g"," ","a","p","p","l","e","s">>,   \* containing apples
    <<"c","o","n","t","a","i","n"," ","t","h","e"," ","f","i","r","s","t"," ","v","o","w","e","l">>,   \* contain the first vowel
    <<"c","o","n","t","a","i","n","s"," ","t","h","e"," ","l","e","t","t","e","r"," ","z">>,   \* contains the letter z
    <<"f","i","r","s","t"," ","v","o","w","e","l">>,   \* first vowel
    <<"P","a","l","i","n","d","r","o","m","i","c">>,   \* Palindromic
    <<"h","e","l","l","o"," ","w","o","r","l","d">>    \* hello world
    >>

RECURSIVE PhraseOf(_)
PhraseOf(ix) ==
    IF ix = <<>> THEN <<>>
    ELSE IF Len(ix) = 1 THEN Fragments[ix[1]]
    ELSE Fragments[ix[1]] \o <<" ">> \o PhraseOf(Tail(ix))

Phrases ==
    {PhraseOf(ix) : ix \in UNION {[1..n -> DOMAIN Fragments] : n \in 0..MaxFrags}}

\* a collection that two POST /strings requests have filled
SampleStore(which) == {PostDocument(which, V_a, 0), PostDocument(which, V_Ab, 1)}

InitNL ==
    /\ copy \in Copies
    /\ store = SampleStore(copy)
    /\ clock = 1
    /\ post = [c \in Clients |-> Idle]
    /\ last = NoRequest
    /\ phrase \in Phrases
    /\ nl = NoResponse
    /\ direct = NoResponse
    /\ input = <<>>
    /\ analysis = NotAnalyzed

NextNL ==
    \/ NaturalLanguageFilter
    \/ GetFilterByNaturalLanguage
    \/ \E params \in DirectParams : GetStrings(params)

SpecNL == InitNL /\ [][NextNL]_vars

\* ------------------------------------ one client, create / read / delete
\* One client sends its requests one after the other; its values include
\* one with a percent sign.
Client == "c1"
V_pct == <<"%">>
LifecycleValues == Values \cup {V_pct}
LifecycleSegments == {encodeURIComponent(v) : v \in LifecycleValues}
LifecycleParams ==
    {ExpressParam(seg).str : seg \in {g \in LifecycleSegments : ExpressParam(g).ok}}

NextLifecycle ==
    \/ \E v \in LifecycleValues : PostReceive(Client, [type |-> "string", str |-> v])
    \/ PostFindOne(Client)
    \/ PostInsertOne(Client)
    \/ PostDone(Client)
    \/ \E raw \in LifecycleParams : GetStringsValue(raw)
    \/ \E raw \in LifecycleParams : DeleteStringsValue(raw)
    \/ Tick

SpecLifecycle == Init /\ [][NextLifecycle]_vars

\* ------------------------------------------------- the strings analyzed
\* the code units strings are made of: letters in both cases, two kinds of
\* whitespace, and the two halves of a surrogate pair (which may also
\* occur alone)
Units == {"a", "A", "b", " ", "\n", "D83D", "DC4D"}
Inputs == UNION {[1..n -> Units] : n \in 0..MaxValueLen}

InitAnalyze ==
    /\ copy \in Copies
    /\ store = {}
    /\ clock = 0
    /\ post = [c \in Clients |-> Idle]
    /\ last = NoRequest
    /\ phrase = <<>>
    /\ nl = NoResponse
    /\ direct = NoResponse
    /\ input \in Inputs
    /\ analysis = NotAnalyzed

NextAnalyze ==
    \/ AnalyzeString
    \/ PostLengthCheck

SpecAnalyze == InitAnalyze /\ [][NextAnalyze]_vars

\* =====================================================================
\* The claims
\* =====================================================================

\* the phrase the parser was given, and its lower-cased copy
Given == decodeURIComponent(phrase).str
Text == toLowerCase(Given)
Filters == nl.interpreted.parsed_filters
ReturnedFilter == nl.called /\ ~nl.interpreted.threw
AllDocs == store \cup UNION {post[c].doc : c \in Clients}

C2_DuplicateIs409 ==
    \A c \in Clients :
        post[c].pc = "done" /\ PostValidate(post[c].body) = 0
            => post[c].status \in {201, 409}

\* the explicit word counts the phrase asserts ("[exactly] N word(s)"),
\* and its "longer than N" and "shorter than N" bounds
RunStarts(t, MatchAt(_)) ==
    {i \in 1..Len(t) : MatchAt(i) # NoMatch /\ At(t, i - 1) \notin Digit}
ExplicitWordCounts(t) ==
    {NumberOfDigits(WordCountAt(t, i)) :
        i \in RunStarts(t, LAMBDA j : WordCountAt(t, j))}
ThanBounds(t, lit) ==
    {NumberOfDigits(ThanAt(t, i, lit)) :
        i \in RunStarts(t, LAMBDA j : ThanAt(t, j, lit))}

\* C3 (as claimed): a phrase that asserts two different explicit word
\* counts, or two different "longer than" or "shorter than" bounds, makes
\* the parser fail with status 422.
C3_TwoExplicitValuesConflict ==
    (/\ nl.called
     /\ \/ Cardinality(ExplicitWordCounts(Text)) >= 2
        \/ Cardinality(ThanBounds(Text, L_longer_than)) >= 2
        \/ Cardinality(ThanBounds(Text, L_shorter_than)) >= 2)
    => nl.interpreted.threw /\ nl.interpreted.status = 422

\* C4 (as claimed): when the phrase says "single word" / "one word" and
\* also gives an explicit word count N, the parser raises the word-count
\* conflict if N # 1 and never returns a word_count other than 1.
C4_SingleWordConflict ==
    (nl.called /\ SingleWordRe(Text) /\ ExplicitWordCounts(Text) # {})
    => /\ ExplicitWordCounts(Text) # {1}
          => nl.interpreted.threw /\ nl.interpreted.status = 422
       /\ ReturnedFilter => Filters["word_count"] = 1

\* the length bounds the Longer-than and Shorter-than rules yield
ThanFilters == RuleShorter(Text, RuleLonger(Text, EmptyObject))
InfeasibleThan ==
    /\ Has(ThanFilters, "min_length")
    /\ Has(ThanFilters, "max_length")
    /\ ThanFilters["min_length"] > ThanFilters["max_length"]

\* C5: a returned filter that has both min_length and max_length has
\* min_length <= max_length; a phrase whose rules yield
\* min_length > max_length makes the parser fail with status 422 - with
\* the min_length > max_length error unless the word-count conflict was
\* raised first - and no filter is returned.
C5_FeasibleRange ==
    nl.called =>
    /\ (ReturnedFilter /\ Has(Filters, "min_length") /\ Has(Filters, "max_length"))
          => Filters["min_length"] <= Filters["max_length"]
    /\ InfeasibleThan
          => /\ nl.interpreted.threw
             /\ nl.interpreted.status = 422
             /\ nl.interpreted.message \in {MsgInfeasible, MsgWordConflict}
             /\ nl.status = 422
             /\ nl.data = <<>>

\* C5 witness: "longer than 10" with "shorter than 6" has been refused
C5_Witness ==
    /\ nl.called
    /\ InfeasibleThan
    /\ nl.interpreted.message = MsgInfeasible

\* "N char", "N chars", "N character" or "N characters" at position i of
\* the phrase: the number N
L_acter == <<"a","c","t","e","r">>
CharCountAt(t, i) ==
    LET d == RunEnd(t, i, Digit)
        w == RunEnd(t, d, Whitespace)
        c == w + Len(L_char)
        e == IF LitAt(t, c, L_acter) THEN c + Len(L_acter) ELSE c
        f == IF At(t, e) = "s" THEN e + 1 ELSE e
    IN  IF d > i /\ WordBoundary(t, i) /\ w > d /\ LitAt(t, w, L_char)
           /\ At(t, f) \notin WordChar
        THEN SubSeq(t, i, d - 1) ELSE NoMatch
NoThan ==
    /\ Leftmost(Text, LAMBDA i : ThanAt(Text, i, L_longer_than)) = NoMatch
    /\ Leftmost(Text, LAMBDA i : ThanAt(Text, i, L_shorter_than)) = NoMatch

\* C6 (as claimed): a phrase with "N char(s)" or "N character(s)" and
\* neither "longer than" nor "shorter than" yields min_length = N and
\* max_length = N (unless the parser raised the word-count conflict).
C6_ExactLength ==
    (/\ nl.called
     /\ Leftmost(Text, LAMBDA i : CharCountAt(Text, i)) # NoMatch
     /\ NoThan
     /\ nl.interpreted.message # MsgWordConflict)
    => /\ ReturnedFilter
       /\ Has(Filters, "min_length") /\ Has(Filters, "max_length")
       /\ Filters["min_length"] =
             NumberOfDigits(Leftmost(Text, LAMBDA i : CharCountAt(Text, i)))
       /\ Filters["max_length"] = Filters["min_length"]

\* "contain(s)/containing [the letter|character] X" at position i with X a
\* single character that stands alone (quoted or not): X
StandaloneAfter(t, p) ==
    LET w  == RunEnd(t, p, Whitespace)
        g1 == RunEnd(t, w + Len(L_the), Whitespace)
        g2 == IF LitAt(t, g1, L_letter) THEN g1 + Len(L_letter)
              ELSE IF LitAt(t, g1, L_character) THEN g1 + Len(L_character)
              ELSE 0
        g3 == RunEnd(t, g2, Whitespace)
        k  == IF LitAt(t, w, L_the) /\ g1 > w + Len(L_the) /\ g2 > 0 /\ g3 > g2
              THEN g3 ELSE w
        x  == QuotedCharAt(t, k, Lower \cup Digit)
        after == IF At(t, k) \in Quote THEN k + 3 ELSE k + 1
    IN  IF w > p /\ x # NoMatch /\ At(t, after) \notin WordChar
        THEN x ELSE NoMatch
StandaloneCharAt(t, i) ==
    LET c == i + Len(L_contain)
        g == IF LitAt(t, c, L_ing) THEN c + Len(L_ing) ELSE c
        p == IF At(t, g) = "s" THEN g + 1 ELSE g
    IN  IF LitAt(t, i, L_contain) THEN StandaloneAfter(t, p) ELSE NoMatch
StandaloneChars(t) ==
    {StandaloneCharAt(t, i) : i \in 1..Len(t)} \ {NoMatch}
MentionsVowel ==
    Includes(Text, L_first_vowel) \/ Includes(Text, L_initial_vowel)

\* C7 (as claimed): a returned contains_character is the provisional 'a'
\* of the Vowel heuristic or a single standalone character X that the
\* phrase names after "contain(s)/containing"; it is never the first
\* letter of a longer word.
C7_ExplicitCharacterIsStandalone ==
    (ReturnedFilter /\ Has(Filters, "contains_character"))
    => \/ Filters["contains_character"] \in StandaloneChars(Text)
       \/ /\ MentionsVowel
          /\ StandaloneChars(Text) = {}
          /\ Filters["contains_character"] = <<"a">>

\* C8 (as claimed): a phrase that mentions "first vowel" or "initial vowel"
\* and names no single standalone character yields contains_character = 'a'
\* (unless the parser failed with status 422).
C8_VowelHeuristic ==
    (/\ nl.called
     /\ MentionsVowel
     /\ StandaloneChars(Text) = {}
     /\ nl.interpreted.status # 422)
    => /\ ReturnedFilter
       /\ Has(Filters, "contains_character")
       /\ Filters["contains_character"] = <<"a">>

\* the clause of the Mongo query that a filter field is compiled to
ClauseOf(k) ==
    IF k = "is_palindrome" THEN "properties.is_palindrome"
    ELSE IF k \in {"min_length", "max_length"} THEN "properties.length"
    ELSE IF k = "word_count" THEN "properties.word_count"
    ELSE "characters_array"
SameFilterBothWays ==
    /\ nl.status = 200
    /\ direct.status = 200
    /\ direct.params = ParamsOf(Filters)

\* C9: when the filter a phrase was interpreted as is also sent as query
\* parameters of GET /strings, the two handlers build the same Mongo query
\* (and so find the same documents): one clause per field that is present,
\* none for an absent one, min_length and max_length in one range clause
\* on properties.length.
C9_SameQueryBothWays ==
    SameFilterBothWays =>
    /\ direct.query = nl.query
    /\ direct.data = nl.data
    /\ direct.count = nl.count
    /\ DOMAIN nl.query = {ClauseOf(k) : k \in DOMAIN Filters}
    /\ Has(nl.query, "properties.length")
          => /\ Has(nl.query["properties.length"], "$gte") <=> Has(Filters, "min_length")
             /\ Has(nl.query["properties.length"], "$lte") <=> Has(Filters, "max_length")
             /\ Has(Filters, "min_length")
                   => nl.query["properties.length"]["$gte"] = Filters["min_length"]
             /\ Has(Filters, "max_length")
                   => nl.query["properties.length"]["$lte"] = Filters["max_length"]

\* C9 witness: a filter with min_length, max_length and a third field has
\* gone through both handlers
C9_Witness ==
    /\ SameFilterBothWays
    /\ Has(Filters, "min_length")
    /\ Has(Filters, "max_length")
    /\ Cardinality(DOMAIN Filters) >= 3

\* the filters the rules of the loaded copy accumulate for the phrase
Accumulated ==
    IF copy = "part_001" THEN Accumulate_part001(Text) ELSE Accumulate(Text)

\* C10: for a non-empty phrase, when no rule matches the parser fails with
\* "Unable to parse" and status 400 and the handler answers 400 without
\* data; what the parser returns is never an empty filter and carries the
\* phrase as it was given, not lower-cased; and it does return when a rule
\* matched and there is neither a conflict nor an infeasible range.
C10_UnparseableOrReturned ==
    nl.called =>
    /\ Accumulated = EmptyObject
          => /\ nl.interpreted.threw
             /\ nl.interpreted.status = 400
             /\ nl.interpreted.message = MsgUnparseable
             /\ nl.status = 400
             /\ nl.data = <<>>
    /\ ReturnedFilter
          => /\ Filters # EmptyObject
             /\ nl.interpreted.original = Given
    /\ (Accumulated # EmptyObject
          /\ nl.interpreted.message \notin {MsgWordConflict, MsgInfeasible})
          => ReturnedFilter /\ Filters = Accumulated

\* C10 witness: a phrase with a capital letter has been returned
C10_Witness ==
    /\ ReturnedFilter
    /\ Given # Text
    /\ nl.interpreted.original = Given

\* C10 witness: "hello world" has been refused
C10_WitnessUnparseable ==
    /\ nl.called
    /\ nl.interpreted.message = MsgUnparseable

\* the phrase has an "N char(s)/character(s)" that is not the N of a
\* "longer than N" or "shorter than N"
ExactApart(t) ==
    \E i \in 1..Len(t) :
        /\ CharCountAt(t, i) # NoMatch
        /\ At(t, i - 1) \notin Digit
        /\ ~LitAt(t, i - Len(L_longer_than), L_longer_than)
        /\ ~LitAt(t, i - Len(L_shorter_than), L_shorter_than)

\* C11 (as claimed): a phrase that has the exact-length idiom together with
\* "longer than N" or "shorter than N" makes the parser fail with status
\* 422; no filter is returned.
C11_ExactWithThanConflict ==
    (nl.called /\ ExactApart(Text) /\ ~NoThan)
    => nl.interpreted.threw /\ nl.interpreted.status = 422

\* no rule other than Longer-than and Shorter-than can match the phrase
NoOtherRule ==
    /\ ~PalindromRe(Text)
    /\ ~SingleWordRe(Text)
    /\ ExplicitWordCounts(Text) = {}
    /\ ~MentionsVowel
    /\ ~Includes(Text, L_contain)
    /\ ~ExactApart(Text)

\* C13 (as claimed): a returned filter has min_length = N + 1 for every
\* "longer than N" of the phrase and max_length = N - 1 for every
\* "shorter than N"; when no other rule matches it has no other field.
C13_ThanBounds ==
    ReturnedFilter =>
    /\ \A n \in ThanBounds(Text, L_longer_than) :
          Has(Filters, "min_length") /\ Filters["min_length"] = n + 1
    /\ \A n \in ThanBounds(Text, L_shorter_than) :
          Has(Filters, "max_length") /\ Filters["max_length"] = n - 1
    /\ (NoOtherRule /\ ~NoThan)
          => DOMAIN Filters =
                {"min_length" : n \in ThanBounds(Text, L_longer_than)}
                \cup {"max_length" : n \in ThanBounds(Text, L_shorter_than)}

\* what analyzeString(input) returned
Properties == analysis.result.properties

\* the sum of the values of a frequency map
RECURSIVE SumOver(_, _)
SumOver(f, keys) ==
    IF keys = {} THEN 0
    ELSE LET k == CHOOSE x \in keys : TRUE
         IN  f[k] + SumOver(f, keys \ {k})

\* C12: in analyzeString(v) the values of character_frequency_map sum to
\* properties.length, its keys are unique_characters many, and
\* characters_array has unique_characters entries, all different (and they
\* are the keys of the map).
C12_FrequenciesAddUp ==
    analysis.called =>
    LET map == Properties.character_frequency_map
        arr == analysis.result.characters_array
    IN  /\ SumOver(map, DOMAIN map) = Properties.length
        /\ Cardinality(DOMAIN map) = Properties.unique_characters
        /\ Len(arr) = Properties.unique_characters
        /\ \A i \in 1..Len(arr) : \A j \in 1..Len(arr) : arr[i] = arr[j] => i = j
        /\ {arr[i] : i \in 1..Len(arr)} = DOMAIN map

\* C12 witness: a string with a repeated character and a surrogate pair
\* has been analyzed
C12_Witness ==
    /\ analysis.called
    /\ Properties.unique_characters < Properties.length
    /\ Properties.length < Len(input)

\* the code points of the lower-cased string, in order
Folded == ArrayFrom(toLowerCase(input))

\* C14: is_palindrome is true exactly when the lower-cased code-point
\* sequence of v reads the same from both ends, whitespace and every other
\* character kept.
C14_PalindromeIsMirror ==
    analysis.called =>
    (Properties.is_palindrome
        <=> \A i \in 1..Len(Folded) : Folded[i] = Folded[Len(Folded) + 1 - i])

\* C14 witness: a palindrome that needs the case folding and has a
\* whitespace character in it ("a A", "A\na", ...)
C14_Witness ==
    /\ analysis.called
    /\ Properties.is_palindrome
    /\ input # toLowerCase(input)
    /\ \E i \in 1..Len(input) : input[i] \in Whitespace

\* the number of Unicode code points of a string of UTF-16 code units: a
\* high surrogate followed by a low surrogate is one code point
CodePoints(s) ==
    Len(s) - Cardinality({i \in 1..Len(s) :
                 s[i] \in HighSurrogate /\ At(s, i + 1) \in LowSurrogate})

WordStarts(s) ==
    {i \in 1..Len(s) : s[i] \notin Whitespace /\ (i = 1 \/ s[i - 1] \in Whitespace)}

\* C16: word_count is the number of maximal runs of non-whitespace
\* characters of v: 0 for the empty and the all-whitespace string, and not
\* changed by leading, trailing or repeated whitespace.
C16_WordCountIsRuns ==
    analysis.called => Properties.word_count = Cardinality(WordStarts(input))

\* C16 witness: two words after leading whitespace, or with two whitespace
\* characters between them
C16_Witness ==
    /\ analysis.called
    /\ Properties.word_count = 2
    /\ Len(input) = 4
    /\ input[1] \in Whitespace \/ (input[2] \in Whitespace /\ input[3] \in Whitespace)

\* the value is stored
Stored(v) == \E d \in store : d.value = v

\* C17 (as claimed): the request GET /strings/filter-by-natural-language
\* is never answered by the GET /strings/:value handler with
\* "filter-by-natural-language" as the value.
C17_NotShadowed ==
    ~(last.method = "GET" /\ last.raw = L_filter_by_natural_language)

\* the invariant of the records of the store
RecordsWellFormed ==
    \A d \in store :
        /\ d._id = sha256Hex(d.value)
        /\ d.created_at \in 0..clock
        /\ d = PostDocument(copy, d.value, d.created_at)
        /\ \A e \in store : e.value = d.value => e = d
\* a step removes a record only as a DELETE answered 204 for its id, adds
\* one only as the insertOne of a POST answered 201, and changes none
RecordsOnlyInsertedAndDeleted ==
    /\ \A d \in store \ store' :
          /\ last'.method = "DELETE"
          /\ last'.status = 204
          /\ last'.id = {d._id}
          /\ store' = store \ {d}
          /\ post' = post
    /\ \A d \in store' \ store :
          /\ \E c \in Clients :
                /\ post[c].pc = "insertOne"
                /\ post[c].doc = {d}
                /\ post'[c].status = 201
          /\ store' = store \cup {d}
          /\ last' = last

\* C18: every record of the store has _id = sha256Hex(value), has the
\* properties and characters_array analyzeString computed for its value
\* when it was created, and is the only record of its value; a record
\* enters the store by the insert of a POST, leaves it by a DELETE, and
\* is never changed in between.
C18_RecordsImmutable ==
    []RecordsWellFormed /\ [][RecordsOnlyInsertedAndDeleted]_vars

\* C18 witness: a record has been created, deleted and created again at a
\* later time
C18_Witness ==
    \E d \in store :
        /\ d.created_at > 0
        /\ last.method = "DELETE"
        /\ last.status = 204
        /\ last.id = {d._id}

\* C19 (as claimed): GET /strings/<percent-encoded v> answers 200 with the
\* record of v while v is stored and 404 while it is not; DELETE of a
\* stored v answers 204 and removes it; DELETE of a v that is not stored
\* answers 404 and leaves the store as it was. (last'.raw is v: what
\* Express decoded the path segment to.)
C19_Lifecycle ==
    [][ (last' # last /\ last'.raw \in LifecycleValues) =>
        /\ (last'.method = "GET" /\ Stored(last'.raw))
              => /\ last'.status = 200
                 /\ last'.doc = {d \in store : d.value = last'.raw}
        /\ (last'.method = "GET" /\ ~Stored(last'.raw))
              => last'.status = 404
        /\ (last'.method = "DELETE" /\ Stored(last'.raw))
              => /\ last'.status = 204
                 /\ store' = {d \in store : d.value # last'.raw}
        /\ (last'.method = "DELETE" /\ ~Stored(last'.raw))
              => last'.status = 404 /\ store' = store
      ]_vars

====
